---- MODULE Spec2Model ----
(***************************************************************************)
(* NetworkJournal (src/daily_journal_win.py) and the entries service it    *)
(* talks to (src/server.py).                                               *)
(*                                                                         *)
(* Two threads share NetworkJournal.entries: the foreground thread, which  *)
(* runs the constructor and then one key handler of JournalUI at a time,   *)
(* and the daemon thread running background_sync.  A thread is modelled as *)
(* a program counter; one action is the code between two blocking calls    *)
(* (an HTTP request, the acquisition of sync_lock, file input/output),     *)
(* where CPython hands the interpreter to the other thread.                *)
(*                                                                         *)
(* An entry is a record with the fields content and, optionally,           *)
(* updated_at; created_at is written by the client but never read by the   *)
(* synchronisation code and is left out.  Timestamps are the ISO strings   *)
(* of datetime.now(); fromisoformat() of such a string gives back the      *)
(* instant, so a timestamp is modelled as the instant (a number) and the   *)
(* comparison of lines 125-127 as the comparison of instants.  A mapping   *)
(* id -> entry (the dict, the data directory, the server's directory) is a *)
(* function whose DOMAIN is the set of ids present.                        *)
(***************************************************************************)
EXTENDS Integers, FiniteSets, Sequences, TLC

\* ------------------------------------------------------------------ bounds
\* Ids are today's date D (0) and its suffixed forms D_1 .. D_MaxSuffix.
MaxSuffix == 1
\* Instants are 0 .. MaxTime.
MaxTime == 1
\* Writes other clients make to the entries service during a run.
MaxEnvWrites == 1
\* Key handlers (or direct calls) the foreground thread runs after the
\* constructor.
MaxUiOps == 2

Ids == 0 .. MaxSuffix
Times == 0 .. MaxTime
\* '' is the content of a new entry (line 331), "a" an edited text.
Contents == {"", "a"}

Dated == [content : Contents, updated_at : Times]
Undated == [content : Contents]
Entry == Dated \cup Undated

EmptySet == [k \in {} |-> [content |-> ""]]

\* d[k] = v
Put(d, k, v) == [x \in (DOMAIN d) \cup {k} |-> IF x = k THEN v ELSE d[x]]

\* del d[k]
Del(d, k) == [x \in (DOMAIN d) \ {k} |-> d[x]]

VARIABLES
    entries,     \* self.entries
    disk,        \* the records data/<id>.json of the client
    remote,      \* the records of the entries service
    remoteUp,    \* the service answers within the timeout
    sync_lock,   \* the thread holding self.sync_lock, or "free"
    uiPc,        \* position of the foreground thread
    uiOp,        \* the handler it runs
    date_str,    \* the id argument of the running save_entry / delete_entry
    content,     \* the entry argument of the running save_entry
    uiResp,      \* response.json() of load_entries
    uiPut,       \* outcome of the request of the last save_entry / delete_entry,
                 \* "none" until that call has made its request
    uiRaised,    \* the last handler ended with an exception
    keysBefore,  \* the ids of self.entries when manual_refresh was called
    bgPc,        \* position of the background thread
    server_entries, \* response.json() of the running background cycle
    bgBefore,    \* self.entries as the running cycle's merge found it
    bgLast,      \* how the last finished background cycle ended
    diskErr,     \* a local-storage operation has failed
    envWrites,   \* writes of other clients so far
    uiOps        \* handlers started so far

vars == <<entries, disk, remote, remoteUp, sync_lock, uiPc, uiOp, date_str,
          content, uiResp, uiPut, uiRaised, keysBefore, bgPc, server_entries,
          bgBefore, bgLast, diskErr, envWrites, uiOps>>

\* ------------------------------------------------- the merge, lines 120-128
\* 'updated_at' in e
HasUpdatedAt(e) == "updated_at" \in DOMAIN e

\* server_time > local_time
Newer(server, local) == server.updated_at > local.updated_at

\* The comparison of line 127 written as >=.
MergeEntry_tie(local, server) ==
    IF HasUpdatedAt(server) /\ HasUpdatedAt(local)
    THEN IF server.updated_at >= local.updated_at THEN server ELSE local
    ELSE local

\* A merge that keeps the local entry only when it is dated and the
\* service's is not newer or is undated.
MergeEntry_undated(local, server) ==
    IF HasUpdatedAt(local) /\ (~HasUpdatedAt(server) \/ ~Newer(server, local))
    THEN local
    ELSE server

\* What one iteration of the loop leaves at an id both sides have.
MergeEntry(local, server) ==
    IF HasUpdatedAt(server) /\ HasUpdatedAt(local)
    THEN IF Newer(server, local) THEN server ELSE local
    ELSE local

\* A merge that takes the service's key set for the result.
MergedKeys_mirror(loc, srv) == DOMAIN srv

\* The keys the loop leaves in self.entries.
MergedKeys(loc, srv) == (DOMAIN loc) \cup (DOMAIN srv)

\* The whole loop: each key is decided on its own, so the order of
\* server_entries.items() does not matter.
MergeEntries(loc, srv) ==
    [k \in MergedKeys(loc, srv) |->
        IF k \notin DOMAIN loc THEN srv[k]
        ELSE IF k \in DOMAIN srv THEN MergeEntry(loc[k], srv[k])
        ELSE loc[k]]

\* --------------------------------------------------------- local storage
\* A cache write that dumps the text of each entry alone.
UpdateLocalCache_text(d, ents) ==
    [k \in (DOMAIN d) \cup (DOMAIN ents) |->
        IF k \in DOMAIN ents THEN [content |-> ents[k].content] ELSE d[k]]

\* update_local_cache: one file written per entry, no file removed.
UpdateLocalCache(d, ents) ==
    [k \in (DOMAIN d) \cup (DOMAIN ents) |->
        IF k \in DOMAIN ents THEN ents[k] ELSE d[k]]

\* A file of the data directory that json.load rejects.
Unparseable == [unparseable |-> TRUE]

\* json.load(f) returns (line 54) instead of raising into line 56.
Parseable(r) == "content" \in DOMAIN r

\* A reading loop that stores whatever a file holds.
ReadLocalCache_all(ents, d) ==
    [k \in (DOMAIN ents) \cup (DOMAIN d) |->
        IF k \in DOMAIN d THEN d[k] ELSE ents[k]]

\* The reading loop of load_entries: every record that parses is stored
\* under its id in the dict that self.entries names at that time; a file
\* that does not parse is reported and skipped (lines 56-57).
ReadLocalCache(ents, d) ==
    [k \in (DOMAIN ents) \cup {x \in DOMAIN d : Parseable(d[x])} |->
        IF k \in DOMAIN d /\ Parseable(d[k]) THEN d[k] ELSE ents[k]]

\* A save_entry that writes the record only after a successful post.
WriteRecord_ifPosted(d, k, e) == IF uiPut = "ok" THEN Put(d, k, e) ELSE d

\* open(file_path, 'w') and json.dump of save_entry
WriteRecord(d, k, e) == Put(d, k, e)

\* A delete_entry that leaves the record in the data directory.
RemoveRecord_keeps(d, k) == d

\* A delete_entry that removes the record only once the service has
\* acknowledged the delete.
RemoveRecord_ifAcked(d, k) ==
    IF uiPut = "ok" /\ k \in DOMAIN d THEN Del(d, k) ELSE d

\* os.path.exists and os.remove of delete_entry
RemoveRecord(d, k) == IF k \in DOMAIN d THEN Del(d, k) ELSE d

\* ------------------------------------------------------------- sync_lock
\* A lock that never makes its caller wait.
CanAcquire_always(l) == TRUE

\* threading.Lock: acquire succeeds only on a free lock.
CanAcquire(l) == l = "free"

\* ----------------------------------------------------------------- Init
\* The constructor has run lines 17-21 and is about to call load_entries
\* (line 22); the background thread is started after it (lines 25-26).
Init ==
    /\ entries = EmptySet
    /\ disk = EmptySet
    /\ remote = EmptySet
    /\ remoteUp \in BOOLEAN
    /\ sync_lock = "free"
    /\ uiPc = "load_get"
    /\ uiOp = "init"
    /\ date_str = 0
    /\ content = [content |-> ""]
    /\ uiResp = EmptySet
    /\ uiPut = "none"
    /\ uiRaised = FALSE
    /\ keysBefore = {}
    /\ bgPc = "unstarted"
    /\ server_entries = EmptySet
    /\ bgBefore = EmptySet
    /\ bgLast = "none"
    /\ diskErr = FALSE
    /\ envWrites = 0
    /\ uiOps = 0

uiLocals == <<uiOp, date_str, content, uiResp, uiPut, uiRaised, keysBefore,
             uiOps>>
bgLocals == <<bgPc, server_entries, bgBefore, bgLast>>
envVars == <<remoteUp, envWrites>>

\* ------------------------------------------------ load_entries, lines 33-57
\* The return of load_entries to its caller: the constructor goes on to
\* start the background thread, manual_refresh to the entries list.
LoadReturn ==
    /\ uiPc' = "idle"
    /\ bgPc' = IF uiOp = "init" THEN "sleep" ELSE bgPc

\* requests.get answered with status 200 (line 37); the body is the
\* service's set at that moment.
LoadGetOk ==
    /\ uiPc = "load_get"
    /\ remoteUp
    /\ uiResp' = remote
    /\ uiPc' = "load_assign"
    /\ UNCHANGED <<entries, disk, remote, sync_lock, uiOp, date_str, content,
                   uiPut, uiRaised, keysBefore, uiOps, bgLocals, diskErr, envVars>>

\* requests.get raised, or the status was not 200: line 47.
LoadGetUnavailable ==
    /\ uiPc = "load_get"
    /\ ~remoteUp
    /\ entries' = EmptySet
    /\ uiPc' = "load_read"
    /\ UNCHANGED <<disk, remote, sync_lock, uiLocals, bgLocals, diskErr, envVars>>

\* self.entries = response.json() (line 39)
LoadAssign ==
    /\ uiPc = "load_assign"
    /\ entries' = uiResp
    /\ uiPc' = "load_cache"
    /\ UNCHANGED <<disk, remote, sync_lock, uiLocals, bgLocals, diskErr, envVars>>

\* self.update_local_cache() and return (lines 41-42); a failing write is
\* printed and skipped (lines 66-67).
LoadCache ==
    /\ uiPc = "load_cache"
    /\ \/ disk' = UpdateLocalCache(disk, entries) /\ UNCHANGED diskErr
       \/ DOMAIN entries # {} /\ disk' = disk /\ diskErr' = TRUE
    /\ LoadReturn
    /\ uiResp' = EmptySet
    /\ UNCHANGED <<entries, remote, sync_lock, uiOp, date_str, content, uiPut,
                   uiRaised, keysBefore, uiOps, server_entries, bgBefore, bgLast,
                   envVars>>

\* The loop over the data directory (lines 48-57).
LoadRead ==
    /\ uiPc = "load_read"
    /\ entries' = ReadLocalCache(entries, disk)
    /\ LoadReturn
    /\ UNCHANGED <<disk, remote, sync_lock, uiLocals, server_entries, bgBefore,
                   bgLast, diskErr, envVars>>

\* ------------------------------------------------- save_entry, lines 69-87
\* with self.sync_lock: (line 71)
SaveAcquire ==
    /\ uiPc = "save_lock"
    /\ CanAcquire(sync_lock)
    /\ sync_lock' = "ui"
    /\ uiPc' = "save_assign"
    /\ UNCHANGED <<entries, disk, remote, uiLocals, bgLocals, diskErr, envVars>>

\* self.entries[date_str] = content (line 72)
SaveAssign ==
    /\ uiPc = "save_assign"
    /\ entries' = Put(entries, date_str, content)
    /\ uiPc' = "save_post"
    /\ UNCHANGED <<disk, remote, sync_lock, uiLocals, bgLocals, diskErr, envVars>>

\* requests.post (lines 75-82): the service stores the entry
\* (server.py lines 46-54), or answers with an error status (line 56), or
\* is not reached; the client ignores which.
SavePost ==
    /\ uiPc = "save_post"
    /\ \/ remoteUp /\ remote' = Put(remote, date_str, content) /\ uiPut' = "ok"
       \/ remoteUp /\ remote' = remote /\ uiPut' = "status"
       \/ ~remoteUp /\ remote' = remote /\ uiPut' = "unavailable"
    /\ uiPc' = "save_write"
    /\ UNCHANGED <<entries, disk, sync_lock, uiOp, date_str, content, uiResp,
                   uiRaised, keysBefore, uiOps, bgLocals, diskErr, envVars>>

\* The write of the record (lines 85-87) and the end of the with block.
SaveWrite ==
    /\ uiPc = "save_write"
    /\ disk' = WriteRecord(disk, date_str, content)
    /\ sync_lock' = "free"
    /\ uiRaised' = FALSE
    /\ uiPc' = "idle"
    /\ UNCHANGED <<entries, remote, uiOp, date_str, content, uiResp, uiPut, keysBefore,
                   uiOps, bgLocals, diskErr, envVars>>

\* A save_entry that takes the entry out of the map again when its write
\* raises.
SaveWriteFails_rollback ==
    /\ uiPc = "save_write"
    /\ entries' = Del(entries, date_str)
    /\ sync_lock' = "free"
    /\ uiRaised' = TRUE
    /\ diskErr' = TRUE
    /\ uiPc' = "idle"
    /\ UNCHANGED <<disk, remote, uiOp, date_str, content, uiResp, uiPut, keysBefore,
                   uiOps, bgLocals, envVars>>

\* A save_entry whose write raises with sync_lock still held, as acquire()
\* without try/finally would leave it.
SaveWriteFails_keepsLock ==
    /\ uiPc = "save_write"
    /\ sync_lock' = sync_lock
    /\ uiRaised' = TRUE
    /\ diskErr' = TRUE
    /\ uiPc' = "idle"
    /\ UNCHANGED <<entries, disk, remote, uiOp, date_str, content, uiResp, uiPut, keysBefore,
                   uiOps, bgLocals, envVars>>

\* open or json.dump raises: the with block releases the lock and the
\* exception goes to the caller of save_entry.
SaveWriteFails ==
    /\ uiPc = "save_write"
    /\ sync_lock' = "free"
    /\ uiRaised' = TRUE
    /\ diskErr' = TRUE
    /\ uiPc' = "idle"
    /\ UNCHANGED <<entries, disk, remote, uiOp, date_str, content, uiResp, uiPut, keysBefore,
                   uiOps, bgLocals, envVars>>

\* ---------------------------------------------- delete_entry, lines 89-104
\* with self.sync_lock: (line 91)
DeleteAcquire ==
    /\ uiPc = "del_lock"
    /\ CanAcquire(sync_lock)
    /\ sync_lock' = "ui"
    /\ uiPc' = "del_erase"
    /\ UNCHANGED <<entries, disk, remote, uiLocals, bgLocals, diskErr, envVars>>

\* if date_str in self.entries: del self.entries[date_str] (lines 92-93)
DeleteErase ==
    /\ uiPc = "del_erase"
    /\ entries' = IF date_str \in DOMAIN entries THEN Del(entries, date_str)
                  ELSE entries
    /\ uiPc' = "del_remote"
    /\ UNCHANGED <<disk, remote, sync_lock, uiLocals, bgLocals, diskErr, envVars>>

\* requests.delete (lines 96-99): the service removes the record or
\* answers not-found (server.py lines 58-68), or is not reached.
DeleteRemote ==
    /\ uiPc = "del_remote"
    /\ \/ /\ remoteUp
          /\ remote' = IF date_str \in DOMAIN remote THEN Del(remote, date_str)
                       ELSE remote
          /\ uiPut' = IF date_str \in DOMAIN remote THEN "ok" ELSE "status"
       \/ ~remoteUp /\ remote' = remote /\ uiPut' = "unavailable"
    /\ uiPc' = "del_file"
    /\ UNCHANGED <<entries, disk, sync_lock, uiOp, date_str, content, uiResp,
                   uiRaised, keysBefore, uiOps, bgLocals, diskErr, envVars>>

\* The removal of the record (lines 102-104) and the end of the with block.
DeleteFile ==
    /\ uiPc = "del_file"
    /\ disk' = RemoveRecord(disk, date_str)
    /\ sync_lock' = "free"
    /\ uiRaised' = FALSE
    /\ uiPc' = "idle"
    /\ UNCHANGED <<entries, remote, uiOp, date_str, content, uiResp, uiPut, keysBefore,
                   uiOps, bgLocals, diskErr, envVars>>

\* os.remove raises: the lock is released, the exception goes to the caller.
DeleteFileFails ==
    /\ uiPc = "del_file"
    /\ date_str \in DOMAIN disk
    /\ sync_lock' = "free"
    /\ uiRaised' = TRUE
    /\ diskErr' = TRUE
    /\ uiPc' = "idle"
    /\ UNCHANGED <<entries, disk, remote, uiOp, date_str, content, uiResp, uiPut, keysBefore,
                   uiOps, bgLocals, envVars>>

\* ------------------------------------------ background_sync, lines 106-133
\* time.sleep and requests.get answered with status 200 (lines 111-115).
BgFetchOk ==
    /\ bgPc = "sleep"
    /\ remoteUp
    /\ server_entries' = remote
    /\ bgPc' = "lock"
    /\ UNCHANGED <<entries, disk, remote, sync_lock, uiPc, uiLocals, bgBefore,
                   bgLast, diskErr, envVars>>

\* A cycle that takes a failed fetch for an empty answer and goes on to
\* the merge.
BgFetchUnavailable_merges ==
    /\ bgPc = "sleep"
    /\ ~remoteUp
    /\ bgPc' = "lock"
    /\ server_entries' = EmptySet
    /\ bgLast' = "unavailable"
    /\ UNCHANGED <<entries, disk, remote, sync_lock, uiPc, uiLocals, bgBefore,
                   diskErr, envVars>>

\* requests.get raised (caught on line 132) or the status was not 200:
\* the loop goes to its next round.
BgFetchUnavailable ==
    /\ bgPc = "sleep"
    /\ ~remoteUp
    /\ bgLast' = "unavailable"
    /\ UNCHANGED <<entries, disk, remote, sync_lock, uiPc, uiLocals, bgPc,
                   server_entries, bgBefore, diskErr, envVars>>

\* with self.sync_lock: (line 116)
BgAcquire ==
    /\ bgPc = "lock"
    /\ CanAcquire(sync_lock)
    /\ sync_lock' = "bg"
    /\ bgPc' = "merge"
    /\ UNCHANGED <<entries, disk, remote, uiPc, uiLocals, server_entries,
                   bgBefore, bgLast, diskErr, envVars>>

\* The loop over server_entries.items() (lines 117-128).
BgMerge ==
    /\ bgPc = "merge"
    /\ bgBefore' = entries
    /\ entries' = MergeEntries(entries, server_entries)
    /\ bgPc' = "cache"
    /\ UNCHANGED <<disk, remote, sync_lock, uiPc, uiLocals, server_entries,
                   bgLast, diskErr, envVars>>

\* self.update_local_cache() (line 131) and the end of the with block.
BgCache ==
    /\ bgPc = "cache"
    /\ \/ disk' = UpdateLocalCache(disk, entries) /\ UNCHANGED diskErr
       \/ DOMAIN entries # {} /\ disk' = disk /\ diskErr' = TRUE
    /\ sync_lock' = "free"
    /\ bgPc' = "sleep"
    /\ server_entries' = EmptySet
    /\ bgBefore' = EmptySet
    /\ bgLast' = "merged"
    /\ UNCHANGED <<entries, remote, uiPc, uiLocals, envVars>>

\* ------------------------------------------------- JournalUI key handlers
\* The id create_new_entry settles on (lines 323-328): k stands for the
\* date itself when 0 and for the date with suffix _k otherwise.
\* A collision check made once, with if in the place of while.
FreshId_once(ents, k) == IF k \in DOMAIN ents THEN k + 1 ELSE k

RECURSIVE FreshId(_, _)
FreshId(ents, k) == IF k \in DOMAIN ents THEN FreshId(ents, k + 1) ELSE k

\* manual_refresh (lines 271-274)
ManualRefresh ==
    /\ uiPc = "idle"
    /\ uiOps < MaxUiOps
    /\ uiOps' = uiOps + 1
    /\ uiOp' = "refresh"
    /\ keysBefore' = DOMAIN entries
    /\ uiPc' = "load_get"
    /\ UNCHANGED <<entries, disk, remote, sync_lock, date_str, content, uiResp,
                   uiPut, uiRaised, bgLocals, diskErr, envVars>>

\* create_new_entry up to its call of save_entry (lines 320-331)
CreateNewEntry ==
    /\ uiPc = "idle"
    /\ uiOps < MaxUiOps
    /\ FreshId(entries, 0) \in Ids
    /\ \E now \in Times :
          content' = [content |-> "", updated_at |-> now]
    /\ date_str' = FreshId(entries, 0)
    /\ uiOps' = uiOps + 1
    /\ uiOp' = "create"
    /\ keysBefore' = {}
    /\ uiPut' = "none"
    /\ uiPc' = "save_lock"
    /\ UNCHANGED <<entries, disk, remote, sync_lock, uiResp, uiRaised,
                   bgLocals, diskErr, envVars>>

\* save_current_entry up to its call of save_entry (lines 353-359): the
\* selected id is one of the listed ones, entry_data is the stored dict
\* itself, and lines 356-357 change it in place.
SaveCurrentEntry ==
    /\ uiPc = "idle"
    /\ uiOps < MaxUiOps
    /\ \E id \in DOMAIN entries, text \in Contents, now \in Times :
          LET entry_data == [content |-> text, updated_at |-> now]
          IN  /\ entries' = Put(entries, id, entry_data)
              /\ date_str' = id
              /\ content' = entry_data
    /\ uiOps' = uiOps + 1
    /\ uiOp' = "save"
    /\ keysBefore' = {}
    /\ uiPut' = "none"
    /\ uiPc' = "save_lock"
    /\ UNCHANGED <<disk, remote, sync_lock, uiResp, uiRaised, bgLocals,
                   diskErr, envVars>>

\* delete_current_entry up to its call of delete_entry (lines 371-373)
DeleteCurrentEntry ==
    /\ uiPc = "idle"
    /\ uiOps < MaxUiOps
    /\ \E id \in DOMAIN entries : date_str' = id
    /\ uiOps' = uiOps + 1
    /\ uiOp' = "delete"
    /\ keysBefore' = {}
    /\ uiPut' = "none"
    /\ uiPc' = "del_lock"
    /\ UNCHANGED <<entries, disk, remote, sync_lock, content, uiResp, uiRaised, bgLocals, diskErr, envVars>>

\* ------------------------------------------------------- the environment
\* The service becomes reachable or unreachable.
EnvToggle ==
    /\ remoteUp' = ~remoteUp
    /\ UNCHANGED <<entries, disk, remote, sync_lock, uiPc, uiLocals, bgLocals,
                   diskErr, envWrites>>

\* Another client posts an entry (server.py lines 46-54).
EnvPost ==
    /\ envWrites < MaxEnvWrites
    /\ \E id \in Ids, e \in Entry : remote' = Put(remote, id, e)
    /\ envWrites' = envWrites + 1
    /\ UNCHANGED <<entries, disk, remoteUp, sync_lock, uiPc, uiLocals, bgLocals,
                   diskErr>>

\* Another client deletes an entry (server.py lines 58-65).
EnvDelete ==
    /\ envWrites < MaxEnvWrites
    /\ \E id \in DOMAIN remote : remote' = Del(remote, id)
    /\ envWrites' = envWrites + 1
    /\ UNCHANGED <<entries, disk, remoteUp, sync_lock, uiPc, uiLocals, bgLocals,
                   diskErr>>

\* ------------------------------------- direct callers of NetworkJournal
\* save_entry(date_str, content) called with any id and any entry.
CallSaveEntry ==
    /\ uiPc = "idle"
    /\ uiOps < MaxUiOps
    /\ \E id \in Ids, e \in Entry : date_str' = id /\ content' = e
    /\ uiOps' = uiOps + 1
    /\ uiOp' = "save_entry"
    /\ keysBefore' = {}
    /\ uiPut' = "none"
    /\ uiPc' = "save_lock"
    /\ UNCHANGED <<entries, disk, remote, sync_lock, uiResp, uiRaised,
                   bgLocals, diskErr, envVars>>

\* delete_entry(date_str) called with any id, present or not.
CallDeleteEntry ==
    /\ uiPc = "idle"
    /\ uiOps < MaxUiOps
    /\ \E id \in Ids : date_str' = id
    /\ uiOps' = uiOps + 1
    /\ uiOp' = "delete_entry"
    /\ keysBefore' = {}
    /\ uiPut' = "none"
    /\ uiPc' = "del_lock"
    /\ UNCHANGED <<entries, disk, remote, sync_lock, content, uiResp, uiRaised, bgLocals, diskErr, envVars>>

\* ----------------------------------------------------- the specifications
LoadNext ==
    LoadGetOk \/ LoadGetUnavailable \/ LoadAssign \/ LoadCache \/ LoadRead

SaveEntryNext ==
    SaveAcquire \/ SaveAssign \/ SavePost \/ SaveWrite \/ SaveWriteFails

DeleteEntryNext ==
    \/ DeleteAcquire \/ DeleteErase \/ DeleteRemote \/ DeleteFile
    \/ DeleteFileFails

HandlerNext ==
    ManualRefresh \/ CreateNewEntry \/ SaveCurrentEntry \/ DeleteCurrentEntry

UiNext == LoadNext \/ SaveEntryNext \/ DeleteEntryNext \/ HandlerNext

BgNext == BgFetchOk \/ BgFetchUnavailable \/ BgAcquire \/ BgMerge \/ BgCache

ForeignNext == EnvPost \/ EnvDelete

\* The program: the foreground thread, the background thread, the
\* service's availability and the other clients of the service.
Next == UiNext \/ BgNext \/ EnvToggle \/ ForeignNext

Spec == Init /\ [][Next]_vars

\* The program as the only client of the service.
NextOwn == UiNext \/ BgNext \/ EnvToggle

SpecOwn == Init /\ [][NextOwn]_vars

\* The same with its scheduling: the background loop never stops (line
\* 108), and a running load_entries, save_entry or delete_entry goes on,
\* every request ending within its timeout (lines 37, 79, 97, 114).
SpecLive ==
    /\ Init
    /\ [][NextOwn]_vars
    /\ WF_vars(BgNext)
    /\ WF_vars(LoadNext \/ SaveEntryNext \/ DeleteEntryNext)

\* Every mapping of ids to entries.
EntrySets == UNION {[S -> Entry] : S \in SUBSET Ids}

\* A constructed journal whose data directory mirrors self.entries, with
\* nothing in progress.
Constructed ==
    /\ sync_lock = "free"
    /\ uiPc = "idle"
    /\ uiOp = "init"
    /\ date_str = 0
    /\ content = [content |-> ""]
    /\ uiResp = EmptySet
    /\ uiPut = "none"
    /\ uiRaised = FALSE
    /\ keysBefore = {}
    /\ server_entries = EmptySet
    /\ bgBefore = EmptySet
    /\ bgLast = "none"
    /\ diskErr = FALSE
    /\ envWrites = 0
    /\ uiOps = 0

\* save_entry and delete_entry called in sequence on a journal constructed
\* on an empty data directory, the background thread left out.
InitSaveRemove ==
    /\ entries = EmptySet
    /\ disk = entries
    /\ remote = EmptySet
    /\ remoteUp \in BOOLEAN
    /\ bgPc = "unstarted"
    /\ Constructed

NextSaveRemove ==
    \/ CallSaveEntry \/ CallDeleteEntry
    \/ SaveEntryNext \/ DeleteEntryNext
    \/ EnvToggle

SpecSaveRemove == InitSaveRemove /\ [][NextSaveRemove]_vars

\* The background cycle run on any local set against any set of the
\* service.
InitMerge ==
    /\ entries \in EntrySets
    /\ disk = entries
    /\ remote \in EntrySets
    /\ remoteUp \in BOOLEAN
    /\ bgPc = "sleep"
    /\ Constructed

NextMerge == BgNext

SpecMerge == InitMerge /\ [][NextMerge]_vars

\* create_new_entry called on one day, again and again, on a constructed
\* journal holding any entries, the background thread in its sleep.
InitCreate ==
    /\ entries \in EntrySets
    /\ disk = entries
    /\ remote = EmptySet
    /\ remoteUp \in BOOLEAN
    /\ bgPc = "sleep"
    /\ Constructed

NextCreate == CreateNewEntry \/ SaveEntryNext

SpecCreate == InitCreate /\ [][NextCreate]_vars

\* A constructed journal, empty as its service is, on which entries are
\* created and deleted while the background loop runs.
InitFair ==
    /\ entries = EmptySet
    /\ disk = entries
    /\ remote = EmptySet
    /\ remoteUp \in BOOLEAN
    /\ bgPc = "sleep"
    /\ Constructed

NextFair ==
    \/ CreateNewEntry \/ DeleteCurrentEntry
    \/ SaveEntryNext \/ DeleteEntryNext
    \/ BgNext

\* Its scheduling: the background loop never stops (line 108), a running
\* save_entry or delete_entry goes on, every request ending within its
\* timeout (lines 79, 97, 114), and a thread waiting for sync_lock gets
\* it: the lock is held for the length of a request and a file write at
\* most, and the background loop leaves it free for the ten seconds of
\* line 111 in every cycle.
SpecFair ==
    /\ InitFair
    /\ [][NextFair]_vars
    /\ WF_vars(BgNext)
    /\ WF_vars(SaveEntryNext \/ DeleteEntryNext)
    /\ SF_vars(SaveAcquire)
    /\ SF_vars(DeleteAcquire)
    /\ SF_vars(BgAcquire)

\* delete_entry called with any id on a constructed journal holding any
\* entries, its service holding the same or none, the background thread in
\* its sleep.
InitDelete ==
    /\ entries \in EntrySets
    /\ disk = entries
    /\ remote \in {EmptySet, entries}
    /\ remoteUp \in BOOLEAN
    /\ bgPc = "sleep"
    /\ Constructed

NextDelete == CallDeleteEntry \/ DeleteEntryNext

SpecDelete == InitDelete /\ [][NextDelete]_vars

\* What self.entries may hold when load_entries is called again.
PriorSets == {[k \in S |-> [content |-> "a"]] : S \in SUBSET Ids}

\* Every content of the data directory, files that do not parse included.
RecordSets == UNION {[S -> Entry \cup {Unparseable}] : S \in SUBSET Ids}

\* load_entries called on a constructed journal while the background
\* thread is in its sleep (line 111): either the service is reachable and
\* holds any entry set, or it is not and the data directory holds any
\* records.
InitLoad ==
    /\ entries \in PriorSets
    /\ remoteUp \in BOOLEAN
    /\ \/ remoteUp /\ remote \in EntrySets /\ disk \in PriorSets
       \/ ~remoteUp /\ remote \in PriorSets /\ disk \in RecordSets
    /\ bgPc = "sleep"
    /\ Constructed

NextLoad == ManualRefresh \/ LoadNext

SpecLoad == InitLoad /\ [][NextLoad]_vars

\* ------------------------------------------------------------ the claims
\* The with block of save_entry or delete_entry, the foreground thread in it.
UiInWith ==
    uiPc \in {"save_assign", "save_post", "save_write",
              "del_erase", "del_remote", "del_file"}

\* The with block of background_sync, the background thread in it.
BgInWith == bgPc \in {"merge", "cache"}

\* Nothing in progress: no handler running, no background cycle between
\* its request and the end of its with block.
Quiescent == uiPc = "idle" /\ bgPc = "sleep"

\* C1: every step that changes self.entries is taken by a thread that
\* holds sync_lock at that moment.
C1_MutationUnderLock ==
    [][/\ (UiNext /\ entries' # entries) => sync_lock = "ui"
       /\ (BgNext /\ entries' # entries) => sync_lock = "bg"]_vars

\* C2: after any sequence of save_entry and delete_entry calls, none of
\* which met a local-storage error, the data directory holds exactly the
\* records of self.entries, with the same content.
C2_SaveRemoveConverge == (uiPc = "idle" /\ ~diskErr) => disk = entries

\* C2 witness: two calls have returned, the last one a removal, the
\* service was not reached, and an entry is left.
C2_Witness ==
    /\ uiPc = "idle"
    /\ uiOps = 2
    /\ uiOp = "delete_entry"
    /\ uiPut = "unavailable"
    /\ ~diskErr
    /\ DOMAIN entries # {}
    /\ disk = entries

\* The ids the merge found on both sides, both entries carrying updated_at.
BothDated ==
    {id \in (DOMAIN bgBefore) \cap (DOMAIN server_entries) :
        /\ "updated_at" \in DOMAIN bgBefore[id]
        /\ "updated_at" \in DOMAIN server_entries[id]}

\* C3: for an id on both sides with local updated_at T1 and remote
\* updated_at T2, the merge leaves the remote entry when T2 > T1 and the
\* local entry when T2 <= T1.
C3_LastWriteWins ==
    bgPc = "cache" =>
        \A id \in BothDated :
            /\ id \in DOMAIN entries
            /\ entries[id] =
                 IF server_entries[id].updated_at > bgBefore[id].updated_at
                 THEN server_entries[id]
                 ELSE bgBefore[id]

\* C3 witness: a merge has met a tie between entries of different content
\* and kept the local one, and a newer remote entry and taken it.
C3_Witness ==
    /\ bgPc = "cache"
    /\ \E id \in BothDated :
          /\ server_entries[id].updated_at = bgBefore[id].updated_at
          /\ server_entries[id].content # bgBefore[id].content
          /\ entries[id] = bgBefore[id]
    /\ \E id \in BothDated :
          /\ server_entries[id].updated_at > bgBefore[id].updated_at
          /\ entries[id] = server_entries[id]
          /\ entries[id] # bgBefore[id]

\* C4: the merge leaves in self.entries the ids it found there and the ids
\* of the fetched set, the remote-only ones with the remote entry.
C4_MergeKeys ==
    bgPc = "cache" =>
        /\ DOMAIN entries = (DOMAIN bgBefore) \cup (DOMAIN server_entries)
        /\ \A id \in (DOMAIN server_entries) \ (DOMAIN bgBefore) :
              entries[id] = server_entries[id]

\* C4 witness: a merge has met a local-only id and a remote-only id.
C4_Witness ==
    /\ bgPc = "cache"
    /\ (DOMAIN bgBefore) \ (DOMAIN server_entries) # {}
    /\ (DOMAIN server_entries) \ (DOMAIN bgBefore) # {}
    /\ DOMAIN entries = (DOMAIN bgBefore) \cup (DOMAIN server_entries)

\* C5: an id leaves self.entries only by delete_entry: the ids present
\* when manual_refresh was called are present when its load_entries has
\* returned, and the ids a merge found are present after it (no
\* local-storage error having occurred).
C5_OnlyRemoveDrops ==
    ~diskErr =>
        /\ (uiPc = "idle" /\ uiOp = "refresh") =>
              keysBefore \subseteq DOMAIN entries
        /\ bgPc = "cache" => DOMAIN bgBefore \subseteq DOMAIN entries

\* C6: with nothing in progress and no local-storage error so far, the
\* data directory holds exactly the records of self.entries.
C6_MirrorExact == (Quiescent /\ ~diskErr) => disk = entries

\* The last save_entry has returned, its post did not reach the service,
\* and no handler has run since.
SavedOffline ==
    /\ uiPc = "idle"
    /\ uiOp \in {"create", "save"}
    /\ ~uiRaised
    /\ uiPut = "unavailable"

\* C7: if the service stays reachable from some point on, an entry saved
\* while it was unreachable is eventually a record of the service, unless
\* the foreground thread runs another handler first.
C7_OfflineSaveReachesRemote ==
    (<>[]remoteUp) =>
        [](SavedOffline => <>(~SavedOffline \/ date_str \in DOMAIN remote))

\* C8: no thread holds sync_lock while a request of its own is in flight.
C8_NoLockDuringRequest ==
    /\ uiPc \in {"load_get", "save_post", "del_remote"} => sync_lock # "ui"
    /\ bgPc = "sleep" => sync_lock # "bg"

\* C9: the with block of save_entry or delete_entry and the with block of
\* the background merge are never entered at the same time.
C9_MutualExclusion == ~(UiInWith /\ BgInWith)

\* C9 witness: the background thread is in its with block, the merge not
\* yet done, while save_entry waits for the lock.
C9_Witness == bgPc = "merge" /\ sync_lock = "bg" /\ uiPc = "save_lock"

\* C10: at the normal return of save_entry(date_str, content), whatever
\* the post did, self.entries has content at date_str and so has the data
\* directory.
C10_SaveIsLocal ==
    [][(uiPc = "save_write" /\ uiPc' = "idle" /\ ~uiRaised') =>
          /\ date_str \in DOMAIN entries'
          /\ entries'[date_str] = content
          /\ date_str \in DOMAIN disk'
          /\ disk'[date_str] = content]_vars

\* C10 witness: create_new_entry's save_entry has returned without
\* reaching the service, and memory and data directory hold the entry.
C10_Witness ==
    /\ uiPc = "idle"
    /\ uiOp = "create"
    /\ ~uiRaised
    /\ uiPut = "unavailable"
    /\ date_str \in DOMAIN entries
    /\ entries[date_str] = content
    /\ date_str \in DOMAIN disk
    /\ disk[date_str] = content
    /\ date_str \notin DOMAIN remote

\* C11: a load_entries whose fetch is unavailable returns without raising
\* and leaves self.entries equal to exactly the records of the data
\* directory that parse; a load_entries whose fetch succeeds leaves
\* self.entries equal to the fetched set, the prior content gone, and has
\* written that set to the data directory.
C11_LoadOutcome ==
    (uiPc = "idle" /\ uiOp = "refresh") =>
        IF remoteUp
        THEN /\ entries = remote
             /\ ~diskErr =>
                    \A k \in DOMAIN remote :
                        k \in DOMAIN disk /\ disk[k] = remote[k]
        ELSE /\ ~uiRaised
             /\ DOMAIN entries = {k \in DOMAIN disk : disk[k] \in Entry}
             /\ \A k \in DOMAIN entries : entries[k] = disk[k]

\* A fallback load has returned: one file did not parse and is left out,
\* one parsed and is in, and an id held before is gone.
C11_Witness ==
    /\ uiPc = "idle" /\ uiOp = "refresh" /\ ~remoteUp
    /\ \E k \in DOMAIN disk : disk[k] = Unparseable /\ k \notin DOMAIN entries
    /\ \E k \in DOMAIN disk : disk[k] \in Entry /\ k \in DOMAIN entries
    /\ keysBefore \ DOMAIN entries # {}

\* C12: a cycle of the background loop whose fetched set equals
\* self.entries leaves self.entries and the content of the data directory
\* as they were, so a second cycle against an unchanged service changes
\* nothing after the first (no write to the data directory having failed
\* before).
C12_AgreeingCycleIsNoOp ==
    [][~diskErr =>
        /\ (bgPc = "merge" /\ server_entries = entries) =>
                (entries' = entries /\ disk' = disk)
        /\ (bgPc = "cache" /\ server_entries = bgBefore) =>
                (entries' = bgBefore /\ disk' = disk)]_vars

\* The merge of a cycle has run on a fetched set equal to a non-empty
\* self.entries holding a dated entry, after an earlier cycle.
C12_Witness ==
    /\ bgPc = "cache" /\ bgLast = "merged" /\ ~diskErr
    /\ server_entries = bgBefore /\ entries = bgBefore
    /\ \E k \in DOMAIN entries : HasUpdatedAt(entries[k])

\* C13: for an id held by both sides, when the local entry or the fetched
\* one (or both) has no updated_at, the merge leaves the local entry as it
\* was.
C13_UndatedKeepsLocal ==
    bgPc = "cache" =>
        \A k \in (DOMAIN bgBefore) \cap (DOMAIN server_entries) :
            ("updated_at" \notin DOMAIN bgBefore[k]
                \/ "updated_at" \notin DOMAIN server_entries[k])
            => entries[k] = bgBefore[k]

\* The merge has run over an id whose local entry is undated and differs
\* from the fetched, dated one, and over one with the sides exchanged.
C13_Witness ==
    /\ bgPc = "cache"
    /\ \E k \in (DOMAIN bgBefore) \cap (DOMAIN server_entries) :
          /\ ~HasUpdatedAt(bgBefore[k]) /\ HasUpdatedAt(server_entries[k])
          /\ bgBefore[k].content # server_entries[k].content
          /\ entries[k] = bgBefore[k]
    /\ \E k \in (DOMAIN bgBefore) \cap (DOMAIN server_entries) :
          /\ HasUpdatedAt(bgBefore[k]) /\ ~HasUpdatedAt(server_entries[k])
          /\ bgBefore[k].content # server_entries[k].content

\* C14: create_new_entry settles on the first id of D, D_1, D_2, ... that
\* is not a key of self.entries and save_entry stores an entry with empty
\* text under it; the id differs from the one of the create before it, and
\* after n creates the map holds at least n ids.
C14_CreateFirstFree ==
    [][/\ (uiPc = "idle" /\ uiPc' = "save_lock") =>
            /\ date_str' \notin DOMAIN entries
            /\ \A k \in 0 .. (date_str' - 1) : k \in DOMAIN entries
            /\ content'.content = ""
            /\ uiOps > 0 => date_str' # date_str
       /\ (uiPc = "save_write" /\ uiPc' = "idle") =>
            /\ date_str \in DOMAIN entries'
            /\ entries'[date_str] = content
            /\ Cardinality(DOMAIN entries') >= uiOps']_vars

\* Two creates have returned: the first stored an empty entry under D, the
\* second under D_1.
C14_Witness ==
    /\ uiPc = "idle" /\ uiOp = "create" /\ uiOps = 2
    /\ date_str = 1
    /\ DOMAIN entries = {0, 1}
    /\ entries[0].content = "" /\ entries[1].content = ""
    /\ HasUpdatedAt(entries[0]) /\ HasUpdatedAt(entries[1])

\* The foreground thread is inside save_entry or delete_entry.
UiInCall ==
    uiPc \in {"save_lock", "save_assign", "save_post", "save_write",
              "del_lock", "del_erase", "del_remote", "del_file"}

\* The background thread is in the part of a cycle after its fetch.
BgInCycle == bgPc \in {"lock", "merge", "cache"}

\* C15: every save_entry and delete_entry that was called returns, every
\* cycle of the background loop that fetched ends, and sync_lock, once
\* taken, is free again, whether the holder left normally or by an
\* exception.
C15_OperationsComplete ==
    /\ UiInCall ~> (uiPc = "idle" /\ sync_lock # "ui")
    /\ BgInCycle ~> (bgPc = "sleep" /\ sync_lock # "bg")
    /\ (sync_lock # "free") ~> (sync_lock = "free")

\* save_entry has left by the exception of its write and the background
\* thread, which waited for the lock meanwhile, holds it now.
C15_Witness ==
    /\ uiPc = "idle" /\ uiRaised /\ uiOp = "create"
    /\ bgPc = "merge" /\ sync_lock = "bg"

\* C16: a cycle of the background loop whose fetch is unavailable changes
\* neither self.entries nor the data directory, does not touch sync_lock,
\* and leaves the loop at the sleep of its next cycle.
C16_FailedFetchIsNoOp ==
    [][(bgPc = "sleep" /\ ~remoteUp /\ BgNext) =>
            /\ entries' = entries
            /\ disk' = disk
            /\ sync_lock' = sync_lock
            /\ bgPc' = "sleep"]_vars

\* A cycle has failed at its fetch while the map held an entry and the
\* foreground thread held sync_lock; the service is back and the next
\* cycle has fetched.
C16_Witness ==
    /\ bgLast = "unavailable" /\ bgPc = "lock"
    /\ DOMAIN entries # {}
    /\ sync_lock = "ui"

\* The foreground thread is inside delete_entry.
UiInDelete == uiPc \in {"del_lock", "del_erase", "del_remote", "del_file"}

\* C17: when delete_entry(id) returns, id is neither a key of self.entries
\* nor a record of the data directory, whatever the outcome of the remote
\* delete; no step of delete_entry changes the entry or the record of
\* another id; and a delete_entry of an id held nowhere locally changes
\* neither the map nor the directory.
C17_DeleteFrame ==
    [][/\ UiInDelete =>
            \A k \in Ids \ {date_str} :
                /\ (k \in DOMAIN entries') = (k \in DOMAIN entries)
                /\ k \in DOMAIN entries => entries'[k] = entries[k]
                /\ (k \in DOMAIN disk') = (k \in DOMAIN disk)
                /\ k \in DOMAIN disk => disk'[k] = disk[k]
       /\ (uiPc = "del_file" /\ uiPc' = "idle" /\ ~uiRaised') =>
            /\ date_str \notin DOMAIN entries'
            /\ date_str \notin DOMAIN disk'
       /\ (UiInDelete /\ date_str \notin DOMAIN entries
                      /\ date_str \notin DOMAIN disk) =>
            (entries' = entries /\ disk' = disk)]_vars

\* delete_entry has returned with the service unreachable: the id, still
\* held by the service, is gone from the map and the directory, and the
\* other id is in both.
C17_Witness ==
    /\ uiPc = "idle" /\ uiOp = "delete_entry" /\ ~uiRaised
    /\ uiPut = "unavailable"
    /\ date_str \in DOMAIN remote
    /\ date_str \notin DOMAIN entries /\ date_str \notin DOMAIN disk
    /\ \E k \in Ids \ {date_str} : k \in DOMAIN entries /\ k \in DOMAIN disk

\* C18: when the write of save_entry to the data directory fails, the
\* call ends in an exception raised to its caller, self.entries still
\* holds the entry under its id, the request to the service has been made,
\* and sync_lock is free.
C18_WriteFailure ==
    [][(uiPc = "save_write" /\ uiPc' = "idle" /\ uiRaised') =>
            /\ date_str \in DOMAIN entries'
            /\ entries'[date_str] = content
            /\ uiPut' \in {"ok", "status", "unavailable"}
            /\ sync_lock' = "free"]_vars

\* A save_entry has ended in the exception of its write: the entry is in
\* the map and on the service, not in the data directory, and the lock is
\* free.
C18_Witness ==
    /\ uiPc = "idle" /\ uiRaised /\ uiOp \in {"create", "save"}
    /\ date_str \in DOMAIN entries /\ entries[date_str] = content
    /\ uiPut = "ok"
    /\ date_str \in DOMAIN remote /\ remote[date_str] = content
    /\ date_str \notin DOMAIN disk
    /\ sync_lock = "free"

\* C19: once delete_entry(id) has returned with the remote delete
\* acknowledged, and while no save of that id follows, id is neither a key
\* of self.entries nor a record of the data directory.
C19_DeletedStaysDeleted ==
    (uiPc = "idle" /\ uiOp = "delete" /\ uiPut = "ok" /\ ~uiRaised) =>
        (date_str \notin DOMAIN entries /\ date_str \notin DOMAIN disk)

\* C20: the id under which create_new_entry saves is not a key of
\* self.entries at the moment save_entry assigns it.
C20_CreateNeverOverwrites ==
    (uiPc = "save_assign" /\ uiOp = "create") => date_str \notin DOMAIN entries
====
